---- MODULE Spec2Model ----
(***************************************************************************)
(* Model of app.py: a Flask relay with one rate-limited POST /chat route   *)
(* that validates a message, forwards it to a webhook and maps the         *)
(* outcome to an HTTP response, plus GET / and GET /health.                *)
(***************************************************************************)
EXTENDS Integers, Sequences, FiniteSets, TLC

(***************************************************************************)
(* Text: a Python str is a sequence of one-character strings.              *)
(***************************************************************************)
Whitespace == {" ", "\t", "\n"}

UpperCase == <<"A","B","C","D","E","F","G","H","I","J","K","L","M",
               "N","O","P","Q","R","S","T","U","V","W","X","Y","Z">>

LowerCase == <<"a","b","c","d","e","f","g","h","i","j","k","l","m",
               "n","o","p","q","r","s","t","u","v","w","x","y","z">>

Capitals == {UpperCase[i] : i \in 1..26}

\* re.IGNORECASE compares characters after case folding
Fold(c) ==
    IF c \in Capitals
    THEN LowerCase[CHOOSE i \in 1..26 : UpperCase[i] = c]
    ELSE c

\* str.strip(): drops the leading and the trailing run of whitespace
strip(text) ==
    IF \A i \in 1..Len(text) : text[i] \in Whitespace THEN <<>>
    ELSE LET lo == CHOOSE i \in 1..Len(text) :
                      /\ text[i] \notin Whitespace
                      /\ \A j \in 1..(i - 1) : text[j] \in Whitespace
             hi == CHOOSE i \in 1..Len(text) :
                      /\ text[i] \notin Whitespace
                      /\ \A j \in (i + 1)..Len(text) : text[j] \in Whitespace
         IN  SubSeq(text, lo, hi)

(***************************************************************************)
(* Regular expressions.  A pattern is a sequence of items:                 *)
(*   alt : one of a set of literal words        (previous|above|all)       *)
(*   ws  : a run of at least `min` whitespace   \s+  \s*                   *)
(*   opt : an optional literal word             s?   :?                    *)
(***************************************************************************)
Alt(words) == [k |-> "alt", words |-> words, min |-> 0]
Lit(word)  == [k |-> "alt", words |-> {word}, min |-> 0]
Ws(min)    == [k |-> "ws",  words |-> {},     min |-> min]
Opt(word)  == [k |-> "opt", words |-> {word}, min |-> 0]

\* word w occurs in s at position p, ignoring case
HasAt(s, p, w) ==
    /\ p + Len(w) - 1 <= Len(s)
    /\ \A j \in 1..Len(w) : Fold(s[p + j - 1]) = Fold(w[j])

\* positions at which the match may continue once `item` has matched at p
Step(item, s, p) ==
    CASE item.k = "alt" -> {p + Len(w) : w \in {x \in item.words : HasAt(s, p, x)}}
      [] item.k = "opt" -> {p} \cup {p + Len(w) : w \in {x \in item.words : HasAt(s, p, x)}}
      [] item.k = "ws"  -> {q \in (p + item.min)..(Len(s) + 1) :
                                \A i \in p..(q - 1) : s[i] \in Whitespace}

\* the positions the match can have reached when items k.. of pat are still
\* to match, ps being the positions reached so far
RECURSIVE MatchFrom(_, _, _, _)
MatchFrom(pat, s, k, ps) ==
    IF k > Len(pat) \/ ps = {} THEN ps
    ELSE MatchFrom(pat, s, k + 1, UNION {Step(pat[k], s, p) : p \in ps})

\* re.search(pattern, text, re.IGNORECASE): a match starting anywhere
re_search(pat, s) ==
    \E start \in 1..(Len(s) + 1) : MatchFrom(pat, s, 1, {start}) # {}

dangerous_patterns ==
    << \* ignore\s+(previous|above|all)\s+instructions?
       << Lit(<<"i","g","n","o","r","e">>), Ws(1),
          Alt({<<"p","r","e","v","i","o","u","s">>, <<"a","b","o","v","e">>,
               <<"a","l","l">>}), Ws(1),
          Lit(<<"i","n","s","t","r","u","c","t","i","o","n">>), Opt(<<"s">>) >>,
       \* system\s*:?\s*(prompt|message|shutdown)
       << Lit(<<"s","y","s","t","e","m">>), Ws(0), Opt(<<":">>), Ws(0),
          Alt({<<"p","r","o","m","p","t">>, <<"m","e","s","s","a","g","e">>,
               <<"s","h","u","t","d","o","w","n">>}) >>,
       \* translate\s+the\s+above
       << Lit(<<"t","r","a","n","s","l","a","t","e">>), Ws(1),
          Lit(<<"t","h","e">>), Ws(1), Lit(<<"a","b","o","v","e">>) >>,
       \* forget\s+(everything|all|previous)
       << Lit(<<"f","o","r","g","e","t">>), Ws(1),
          Alt({<<"e","v","e","r","y","t","h","i","n","g">>, <<"a","l","l">>,
               <<"p","r","e","v","i","o","u","s">>}) >>,
       \* <\s*script
       << Lit(<<"<">>), Ws(0), Lit(<<"s","c","r","i","p","t">>) >>,
       \* DROP\s+TABLE
       << Lit(<<"D","R","O","P">>), Ws(1), Lit(<<"T","A","B","L","E">>) >> >>

(***************************************************************************)
(* JSON values as Python sees them.  t is the type; n the number, the      *)
(* truth value or the number of elements; s the characters of a string.    *)
(* "none" is Python's None: JSON null, or what dict.get gives for a        *)
(* missing key.                                                            *)
(***************************************************************************)
None      == [t |-> "none", n |-> 0, s |-> <<>>]
Str(s)    == [t |-> "str",  n |-> Len(s), s |-> s]
Num(n)    == [t |-> "num",  n |-> n, s |-> <<>>]
List(n)   == [t |-> "list", n |-> n, s |-> <<>>]

\* Python truthiness: `not v` is ~Truthy(v)
Truthy(v) == v.t # "none" /\ v.n # 0

\* The "no value" result of sanitize_input
Rejected == [ok |-> FALSE, text |-> <<>>]

\* sanitize_input without its loop over dangerous_patterns
sanitize_input_unchecked(text) ==
    IF ~Truthy(text) \/ text.t # "str" THEN Rejected
    ELSE [ok |-> TRUE, text |-> strip(text.s)]

\* sanitize_input without text.strip()
sanitize_input_unstripped(text) ==
    IF ~Truthy(text) \/ text.t # "str" THEN Rejected
    ELSE IF \E i \in 1..Len(dangerous_patterns) :
                re_search(dangerous_patterns[i], text.s)
         THEN Rejected
         ELSE [ok |-> TRUE, text |-> text.s]

sanitize_input(text) ==
    IF ~Truthy(text) \/ text.t # "str" THEN Rejected
    ELSE LET stripped == strip(text.s)
         IN  IF \E i \in 1..Len(dangerous_patterns) :
                    re_search(dangerous_patterns[i], stripped)
             THEN Rejected
             ELSE [ok |-> TRUE, text |-> stripped]

(***************************************************************************)
(* Configuration (lines 18-21).                                            *)
(***************************************************************************)
MAX_MESSAGE_LENGTH == 500
REQUEST_TIMEOUT == 30

(***************************************************************************)
(* The inputs the requests are drawn from.                                 *)
(***************************************************************************)
\* the character c, n times
Rep(c, n) == <<>> \o [i \in 1..n |-> c]

Texts ==
    { <<>>,                                                     \* ""
      <<" ", "\t", "\n">>,                                      \* only whitespace
      <<"h","i">>,
      <<"h","e","y">>,
      <<" ","\n","h","e","y","\t"," ">>,
      Rep("a", MAX_MESSAGE_LENGTH),
      Rep("a", MAX_MESSAGE_LENGTH + 1),
      <<" ">> \o Rep("a", MAX_MESSAGE_LENGTH) \o <<"\n">>,
      <<"i","g","n","o","r","e"," ","p","r","e","v","i","o","u","s"," ",
        "i","n","s","t","r","u","c","t","i","o","n","s">>,
      <<"x","I","G","N","O","R","E","\t"," ","A","l","l","\n",
        "I","n","s","t","r","u","c","t","i","o","n","!">>,
      <<"i","g","n","o","r","e"," ","i","n","s","t","r","u","c","t","i","o","n","s">>,
      <<"s","y","s","t","e","m","p","r","o","m","p","t">>,
      <<" ","S","y","s","t","e","m"," ",":"," ","S","h","u","t","d","o","w","n"," ">>,
      <<"t","r","a","n","s","l","a","t","e"," ","t","h","e"," ","a","b","o","v","e">>,
      <<"F","o","r","g","e","t"," ","a","l","l">>,
      <<"<"," ","\t","S","C","R","I","P","T",">">>,
      <<"d","r","o","p","\n","t","a","b","l","e">>,
      <<"D","R","O","P"," ","T","A","B","L","E"," ">> \o Rep("a", MAX_MESSAGE_LENGTH) }

\* values the "message" key may hold besides strings
OtherValues == {None, Num(0), Num(7), List(0), List(2)}

MessageValues == {Str(s) : s \in Texts} \cup OtherValues

SessionValues == {None, Str(<<"s","1">>)}

(***************************************************************************)
(* Request bodies.  ctype says whether the request carries a JSON content  *)
(* type; raw is what the body holds; data is the parsed JSON value, and    *)
(* for an object its "message" and "sessionId" entries (None when the key  *)
(* is missing).                                                            *)
(***************************************************************************)
Scalar(v) == [t |-> v.t, n |-> v.n, s |-> v.s, message |-> None, sessionId |-> None]

\* a JSON object with n keys
Dict(n, message, sessionId) ==
    [t |-> "dict", n |-> n, s |-> <<>>, message |-> message, sessionId |-> sessionId]

Body(ctype, raw, data) == [ctype |-> ctype, raw |-> raw, data |-> data]

Bodies ==
    { Body("json", "empty", Scalar(None)),           \* no body at all
      Body("other", "empty", Scalar(None)),
      Body("other", "json", Dict(1, Str(<<"h","e","y">>), None)),
      Body("json", "malformed", Scalar(None)) }      \* e.g. {"message": 
    \cup {Body("json", "json", Scalar(v)) :
            v \in {None, Num(0), Num(7), List(0), List(2), Str(<<"h","e","y">>)}}
    \cup {Body("json", "json", Dict(n, None, None)) : n \in {0, 1}}
    \cup {Body("json", "json", Dict(1, m, None)) : m \in MessageValues}
    \cup {Body("json", "json", Dict(2, Str(<<"h","e","y">>), sid)) :
            sid \in SessionValues \ {None}}

\* request.json: the parsed body, or the HTTP exception Flask raises.  A
\* body without a JSON content type gives None in Flask before 2.1 (legacy)
\* and raises UnsupportedMediaType from 2.1 on.
request_json(body, legacy) ==
    IF body.ctype # "json"
    THEN IF legacy THEN [exc |-> "none", data |-> Scalar(None)]
         ELSE [exc |-> "UnsupportedMediaType", data |-> Scalar(None)]
    ELSE IF body.raw # "json"
         THEN [exc |-> "BadRequest", data |-> Scalar(None)]
         ELSE [exc |-> "none", data |-> body.data]

(***************************************************************************)
(* The webhook as requests.post sees it: an exception, or a response with  *)
(* a status and a body that is JSON or plain text.                         *)
(***************************************************************************)
Reply(status, isJson) == [exc |-> "none", status |-> status, isJson |-> isJson]
Failure(exc) == [exc |-> exc, status |-> 0, isJson |-> FALSE]

Outcomes ==
    { Failure("Timeout"), Failure("ConnectionError"),
      Reply(200, TRUE), Reply(200, FALSE), Reply(304, FALSE),
      Reply(404, TRUE), Reply(500, FALSE) }

\* the call is not made
NoCall == Failure("none")

\* Response.raise_for_status(): HTTPError for 4xx and 5xx
raise_for_status(status) ==
    IF 400 <= status /\ status < 600 THEN "HTTPError" ELSE "none"

\* the exception classes of requests that the handler names
IsTimeout(exc) == exc = "Timeout"
IsRequestException(exc) == exc \in {"Timeout", "ConnectionError", "HTTPError"}

(***************************************************************************)
(* Responses: a status and a JSON body.  An error body is {"error": text}; *)
(* the other bodies are the webhook's JSON, {"response": text} or          *)
(* {"status": "ok"}.                                                       *)
(***************************************************************************)
Error(status, text) == [status |-> status, body |-> "error", error |-> text]
Ok(body) == [status |-> 200, body |-> body, error |-> ""]

NoPayload == [message |-> <<>>, sessionId |-> None]

\* what the try block of chat() does: where it stops (at), the response it
\* returns or the exception it raises, and, when it posts to the webhook,
\* the payload posted and what came of it (out)
Returns(at, resp) ==
    [at |-> at, exc |-> "none", resp |-> resp,
     called |-> FALSE, payload |-> NoPayload, out |-> NoCall]
Raises(at, exc) ==
    [at |-> at, exc |-> exc, resp |-> Ok(""),
     called |-> FALSE, payload |-> NoPayload, out |-> NoCall]

chat_forward(clean_msg, session_id, out) ==
    LET payload == [message |-> clean_msg, sessionId |-> session_id]
        sent(r) == [r EXCEPT !.called = TRUE, !.payload = payload, !.out = out]
    IN  IF out.exc # "none" THEN sent(Raises("post", out.exc))
        ELSE IF raise_for_status(out.status) # "none"
        THEN sent(Raises("raise_for_status", raise_for_status(out.status)))
        ELSE IF out.isJson THEN sent(Returns("reply", Ok("json")))
        ELSE sent(Returns("reply", Ok("wrapped")))

chat_try(body, legacy, out) ==
    LET parsed == request_json(body, legacy)
        data == parsed.data
        user_msg == data.message
        session_id == IF data.sessionId = None THEN Str(<<"a","n","o","n","y","m","o","u","s">>)
                      ELSE data.sessionId
        clean_msg == sanitize_input(user_msg)
    IN  IF parsed.exc # "none" THEN Raises("json", parsed.exc)
        ELSE IF ~Truthy(data) THEN Returns("data", Error(400, "No se recibieron datos"))
        ELSE IF data.t # "dict" THEN Raises("get", "AttributeError")
        ELSE IF ~Truthy(user_msg)
        THEN Returns("message", Error(400, "El campo 'message' es requerido"))
        ELSE IF ~clean_msg.ok
        THEN Returns("sanitize", Error(400, "Mensaje invalido o contiene patrones prohibidos"))
        ELSE IF Len(clean_msg.text) > MAX_MESSAGE_LENGTH
        THEN Returns("length", Error(400, "El mensaje excede el limite"))
        ELSE IF Len(clean_msg.text) < 3
        THEN Returns("length", Error(400, "El mensaje es demasiado corto"))
        ELSE chat_forward(clean_msg.text, session_id, out)

\* chat(): the try block and its three except clauses
chat(body, legacy, out) ==
    LET r == chat_try(body, legacy, out)
    IN  IF r.exc = "none" THEN r
        ELSE IF IsTimeout(r.exc)
        THEN [r EXCEPT !.resp = Error(504, "El servicio tardo demasiado en responder")]
        ELSE IF IsRequestException(r.exc)
        THEN [r EXCEPT !.resp = Error(503, "Error al conectar con el servicio de consultas")]
        ELSE [r EXCEPT !.resp = Error(500, "Ocurrio un error inesperado")]

(***************************************************************************)
(* Rate limiting (lines 24-29 and 70).  Limiter() is given no strategy, so *)
(* it counts in fixed windows: the first hit of a key opens a window that  *)
(* lasts the limit's period, every hit in it is counted, and the key is    *)
(* dropped when the window expires.  A key is the client address, the      *)
(* endpoint and the limit.                                                 *)
(***************************************************************************)
Identities == {"10.0.0.1", "10.0.0.2"}
Routes == {"index", "chat", "health"}

MINUTE == 60
HOUR == 3600
DAY == 86400

Limit(amount, per) == [amount |-> amount, per |-> per]

\* default_limits=["100 per day", "20 per hour"], tried shortest period first
default_limits == << Limit(20, HOUR), Limit(100, DAY) >>

\* a decorator that allows five requests per minute
chat_limits_five == << Limit(5, MINUTE) >>

\* @limiter.limit("3 per minute")
chat_limits == << Limit(3, MINUTE) >>

\* the limits of an endpoint: those of its decorator, which replace the
\* defaults (override_defaults is left True), else the defaults
limits_for(route) == IF route = "chat" THEN chat_limits ELSE default_limits

Periods == {MINUTE, HOUR, DAY}
Keys == Identities \X Routes \X Periods

VARIABLES
    now,          \* the clock, in seconds
    storage,      \* the counter of each key (0: no such key)
    expirations,  \* when each key's window ends (0: no such key)
    last,         \* the request served last and its response
    admitted      \* per identity, when its /chat requests of the last minute
                  \* passed the limiter

vars == <<now, storage, expirations, last, admitted>>

\* MemoryStorage.get: the counter of a key whose window has not ended
Count(st, exp, key, t) == IF exp[key] > t THEN st[key] ELSE 0

\* a limiter that lets one request too many through
Hit_lenient(st, exp, key, lim, t) ==
    LET count == Count(st, exp, key, t) + 1
    IN  [storage |-> [st EXCEPT ![key] = count],
         expirations |-> [exp EXCEPT ![key] = IF count = 1 THEN t + lim.per ELSE @],
         ok |-> count <= lim.amount + 1]

\* FixedWindowRateLimiter.hit -> MemoryStorage.incr: count the hit, open the
\* window on the first one, and say whether the limit still holds
Hit(st, exp, key, lim, t) ==
    LET count == Count(st, exp, key, t) + 1
    IN  [storage |-> [st EXCEPT ![key] = count],
         expirations |-> [exp EXCEPT ![key] = IF count = 1 THEN t + lim.per ELSE @],
         ok |-> count <= lim.amount]

\* Limiter's before-request check: hit the endpoint's limits in turn and stop
\* at the first one that is exceeded
RECURSIVE check_request_limit(_, _, _, _, _, _)
check_request_limit(st, exp, id, route, t, k) ==
    IF k > Len(limits_for(route)) THEN [storage |-> st, expirations |-> exp, ok |-> TRUE]
    ELSE LET lim == limits_for(route)[k]
             h == Hit(st, exp, <<id, route, lim.per>>, lim, t)
         IN  IF ~h.ok THEN h
             ELSE check_request_limit(h.storage, h.expirations, id, route, t, k + 1)

\* @app.errorhandler(429)
ratelimit_handler == Error(429, "Demasiadas solicitudes")

NoBody == Body("other", "empty", Scalar(None))

Served(route, id, body, r) ==
    [route |-> route, id |-> id, body |-> body, at |-> r.at, resp |-> r.resp,
     called |-> r.called, payload |-> r.payload, out |-> r.out]

Denied == Returns("limiter", ratelimit_handler)

\* the admissions of the last minute
Recent(times, t) == SelectSeq(times, LAMBDA x : x > t - MINUTE)

Init ==
    /\ now = 0
    /\ storage = [k \in Keys |-> 0]
    /\ expirations = [k \in Keys |-> 0]
    /\ last = Served("none", "none", NoBody, Returns("none", Ok("")))
    /\ admitted = [id \in Identities |-> <<>>]

\* a limiter that counts a request only once its view function has answered
\* 200 (as with deduct_when)
Request_deduct_when_ok(id, route, body, r) ==
    LET c == check_request_limit(storage, expirations, id, route, now, 1)
        counted == ~c.ok \/ r.resp.status = 200
    IN  /\ storage' = IF counted THEN c.storage ELSE storage
        /\ expirations' = IF counted THEN c.expirations ELSE expirations
        /\ last' = Served(route, id, body, IF c.ok THEN r ELSE Denied)
        /\ admitted' = IF c.ok /\ route = "chat"
                       THEN [admitted EXCEPT ![id] = Append(@, now)]
                       ELSE admitted
        /\ UNCHANGED now

\* a request passes the limiter, and then its view function runs
Request(id, route, body, r) ==
    LET c == check_request_limit(storage, expirations, id, route, now, 1)
    IN  /\ storage' = c.storage
        /\ expirations' = c.expirations
        /\ last' = Served(route, id, body, IF c.ok THEN r ELSE Denied)
        /\ admitted' = IF c.ok /\ route = "chat"
                       THEN [admitted EXCEPT ![id] = Append(@, now)]
                       ELSE admitted
        /\ UNCHANGED now

\* what chat() can do with each body: the Flask version and the webhook's
\* behaviour are not the client's choice
ChatRuns ==
    {<<body, chat(body, legacy, out)>> :
        body \in Bodies, legacy \in BOOLEAN, out \in Outcomes}

\* POST /chat
Chat(id, run, cap) ==
    /\ Count(storage, expirations, <<id, "chat", MINUTE>>, now) < cap
    /\ Request(id, "chat", run[1], run[2])

\* GET /health
Health(id, cap) ==
    /\ Count(storage, expirations, <<id, "health", HOUR>>, now) < cap
    /\ Request(id, "health", NoBody, Returns("health", Ok("status ok")))

\* GET /
Index(id, cap) ==
    /\ Count(storage, expirations, <<id, "index", HOUR>>, now) < cap
    /\ Request(id, "index", NoBody, Returns("index", Ok("html")))

\* time passes; the storage's timer drops the keys whose window has ended
Tick(d, cap) ==
    /\ now + d <= cap
    /\ now' = now + d
    /\ storage' = [k \in Keys |-> IF expirations[k] > now' THEN storage[k] ELSE 0]
    /\ expirations' = [k \in Keys |-> IF expirations[k] > now' THEN expirations[k] ELSE 0]
    /\ admitted' = [id \in Identities |-> Recent(admitted[id], now')]
    /\ UNCHANGED last

TickSteps == {30, 60}

(***************************************************************************)
(* Bounds.  No client sends more than these numbers of requests to a route *)
(* within one window of the route's first limit, and the clock stops.      *)
(***************************************************************************)
MaxChatHits == 4
MaxPlainHits == 1
MaxHealthHits == 21
MaxClock == 30
MaxLimitsClock == 60

\* the service under a load: the clients of /chat, what their requests run
\* into, the clients of the GET routes and when they visit, and the bounds on
\* /health and the clock
Serve(clients, runs, browsers, visits, health, clock) ==
    \/ \E id \in clients, run \in runs : Chat(id, run, MaxChatHits)
    \/ \E id \in browsers : now \in visits /\ Health(id, health)
    \/ \E id \in browsers : now \in visits /\ Index(id, MaxPlainHits)
    \/ \E d \in TickSteps : Tick(d, clock)

\* one run of chat() for each status it answers with
FewBodies ==
    { Body("json", "malformed", Scalar(None)),
      Body("json", "json", Dict(1, Str(<<"h","i">>), None)),
      Body("json", "json", Dict(1, Str(<<"h","e","y">>), None)) }

FewRuns ==
    {run : run \in {r \in ChatRuns : /\ r[1] \in FewBodies
                                     /\ r[2].resp.body \in {"error", "json"}
                                     /\ r[2].at # "raise_for_status"}}

\* one client and every body
Next == Serve({"10.0.0.1"}, ChatRuns, {"10.0.0.1"}, 0..MaxClock, MaxPlainHits, MaxClock)

Spec == Init /\ [][Next]_vars

\* two clients of /chat over a minute and more, one of them loading the page
\* and checking the service first
NextLimits == Serve(Identities, FewRuns, {"10.0.0.2"}, {0}, MaxPlainHits, MaxLimitsClock)

SpecLimits == Init /\ [][NextLimits]_vars

\* one client using up the hourly limit of /health
NextHour == Serve({"10.0.0.1"}, FewRuns, {"10.0.0.1"}, 0..MaxClock, MaxHealthHits, MaxClock)

SpecHour == Init /\ [][NextHour]_vars

(***************************************************************************)
(* Properties.                                                             *)
(***************************************************************************)
ChatKey(id) == <<id, "chat", MINUTE>>

\* the counter of a key now
Live(key) == Count(storage, expirations, key, now)

Blocked(text) == \E i \in 1..Len(dangerous_patterns) : re_search(dangerous_patterns[i], text)

\* of each text: its trimmed form, whether that matches a pattern, and what
\* sanitize_input makes of the trimmed form
TextFacts ==
    {<<s, [trimmed |-> strip(s), blocked |-> Blocked(strip(s)),
           again |-> sanitize_input(Str(strip(s)))]>> : s \in Texts}

Facts(s) == (CHOOSE p \in TextFacts : p[1] = s)[2]

ErrInvalid == Error(400, "Mensaje invalido o contiene patrones prohibidos")
ErrTooShort == Error(400, "El mensaje es demasiado corto")
ErrTooLong == Error(400, "El mensaje excede el limite")

\* C1: the webhook is posted to only by a /chat request that the limiter
\* admitted (it is not answered 429 and is at most the third of its window)
\* and whose message is a string that, trimmed, has 3 to 500 characters and
\* matches none of the six patterns.
C1_ForwardOnlyValid ==
    last.called =>
        /\ last.route = "chat"
        /\ last.at # "limiter"
        /\ last.resp.status # 429
        /\ Live(ChatKey(last.id)) <= 3
        /\ last.body.data.message.t = "str"
        /\ LET m == Facts(last.body.data.message.s)
           IN  /\ 3 <= Len(m.trimmed)
               /\ Len(m.trimmed) <= 500
               /\ ~m.blocked

\* a third request of a window was forwarded, its message trimmed on the way
C1_Witness ==
    /\ last.called
    /\ Live(ChatKey(last.id)) = 3
    /\ last.payload.message # last.body.data.message.s

\* C2: of one identity's /chat requests in a window, the first three are
\* admitted and every later one is answered 429 with the rate limit message;
\* the request that opens a new window, the old one having ended, is admitted.
C2_FourthDenied ==
    \A id \in Identities :
        (last.route = "chat" /\ last.id = id /\ Live(ChatKey(id)) > 0) =>
            /\ Live(ChatKey(id)) <= 3 => last.at # "limiter" /\ last.resp.status # 429
            /\ Live(ChatKey(id)) > 3 => last.at = "limiter" /\ last.resp = ratelimit_handler

\* a window ended, the next one was opened by an admitted request, and the
\* fourth request in that one is denied
C2_Witness ==
    \E id \in Identities :
        /\ last.route = "chat" /\ last.id = id
        /\ last.resp = ratelimit_handler
        /\ now = 60
        /\ Live(ChatKey(id)) = 4
        /\ admitted[id] = <<30, 30, 60, 60, 60>>

\* C3 as claimed: no identity has more than 3 /chat requests admitted within
\* any 60 seconds.
C3_Claim == \A id \in Identities : Len(Recent(admitted[id], now)) <= 3

\* the admissions of the identity's current window
InWindow(id) ==
    SelectSeq(admitted[id],
              LAMBDA t : Live(ChatKey(id)) > 0 /\ t >= expirations[ChatKey(id)] - MINUTE)

\* C3 as amended: the minute is a fixed window, opened by the identity's
\* first /chat request after the previous window ended; at most 3 requests
\* are admitted in one window, and so at most 6 within any 60 seconds.
C3_Amended ==
    \A id \in Identities :
        /\ Len(InWindow(id)) <= 3
        /\ Len(Recent(admitted[id], now)) <= 6

\* five admissions within 60 seconds, three of them in the current window
C3_Witness ==
    \E id \in Identities :
        /\ Len(Recent(admitted[id], now)) = 5
        /\ Len(InWindow(id)) = 3

\* the requests to the GET routes that the identity has made this hour, this day
PlainHits(id, period) ==
    Live(<<id, "health", period>>) + Live(<<id, "index", period>>)

\* C4 as claimed: a /chat request of an identity that has made 20 requests
\* this hour or 100 this day, over all routes, is denied.
C4_Claim ==
    \A id \in Identities :
        (/\ last.route = "chat" /\ last.id = id
         /\ (PlainHits(id, HOUR) >= 20 \/ PlainHits(id, DAY) >= 100))
        => last.resp.status = 429

\* C5 as claimed: an admitted /chat request without a body, with a body that
\* is not JSON, or with JSON that has no or an empty message is answered 400
\* with an error body and is not forwarded.
C5_Claim ==
    (/\ last.route = "chat" /\ last.at # "limiter"
     /\ \/ last.body.raw # "json"
        \/ last.body.data.message \in {None, Str(<<>>)})
    => /\ last.resp.status = 400
       /\ last.resp.body = "error"
       /\ ~last.called

\* C6 as claimed: the webhook's outcome decides the status: 504 for a
\* timeout, 503 for a connection failure or a status outside 2xx, 200 with
\* the JSON or the wrapped text for 2xx; every other response is an error body.
C6_Claim ==
    last.called =>
        LET o == last.out
            success == o.exc = "none" /\ 200 <= o.status /\ o.status < 300
        IN  /\ o.exc = "Timeout" => last.resp.status = 504
            /\ (o.exc = "ConnectionError" \/ (o.exc = "none" /\ ~success))
                   => last.resp.status = 503
            /\ success => last.resp = Ok(IF o.isJson THEN "json" ELSE "wrapped")
            /\ last.resp.status # 200 => last.resp.body = "error"

\* an admitted /chat request whose JSON object holds a string as message
StringMessage ==
    /\ last.route = "chat" /\ last.at # "limiter"
    /\ last.body.ctype = "json" /\ last.body.raw = "json"
    /\ last.body.data.t = "dict"
    /\ last.body.data.message.t = "str"

\* the classification of the spec's reference: patterns first, then length
ClassifiedAsReference ==
    LET m == Facts(last.body.data.message.s)
    IN  IF m.blocked THEN last.resp = ErrInvalid /\ ~last.called
        ELSE IF Len(m.trimmed) < 3 THEN last.resp = ErrTooShort /\ ~last.called
        ELSE IF Len(m.trimmed) > 500 THEN last.resp = ErrTooLong /\ ~last.called
        ELSE /\ last.called
             /\ last.payload.message = m.trimmed
             /\ m.again = [ok |-> TRUE, text |-> last.payload.message]

\* C7 as claimed: every string message is classified as by the reference.
C7_Claim == StringMessage => ClassifiedAsReference

\* C7 as amended: every string message but the empty one is classified as by
\* the reference (the empty string is answered as a missing message).
C7_Amended ==
    (StringMessage /\ last.body.data.message.s # <<>>) => ClassifiedAsReference

\* a message both too long and matching a pattern is rejected for the pattern
C7_Witness ==
    /\ StringMessage
    /\ Len(Facts(last.body.data.message.s).trimmed) > 500
    /\ last.resp = ErrInvalid

\* C8 as claimed: GET /health answers 200 {"status": "ok"} and no request to
\* it is counted against any identity.
C8_Claim ==
    /\ last.route = "health" => last.resp = Ok("status ok")
    /\ \A id \in Identities, p \in Periods : storage[<<id, "health", p>>] = 0

\* a step in which a /chat request of the identity is served
ChatStep(id) ==
    /\ now' = now
    /\ last'.route = "chat" /\ last'.id = id
    /\ <<last, storage, expirations, admitted>>' # <<last, storage, expirations, admitted>>

\* C10: every /chat request is counted by the limiter before chat() runs and
\* whatever chat() answers; from the fourth of a window on it is answered 429
\* without chat() running at all, and up to the third it is answered by chat().
C10_LimiterFirst ==
    [][\A id \in Identities :
          ChatStep(id) =>
              /\ Count(storage', expirations', ChatKey(id), now')
                    = Live(ChatKey(id)) + 1
              /\ Live(ChatKey(id)) >= 3 =>
                    /\ last'.resp = ratelimit_handler
                    /\ last'.at = "limiter"
                    /\ ~last'.called
              /\ Live(ChatKey(id)) < 3 =>
                    /\ last'.at # "limiter"
                    /\ last'.resp.status \in {200, 400, 500, 503, 504}]_vars

\* a valid request is denied as the fourth of its window
C10_Witness ==
    /\ last.route = "chat"
    /\ last.resp = ratelimit_handler
    /\ last.body = Body("json", "json", Dict(1, Str(<<"h","e","y">>), None))
    /\ Live(ChatKey(last.id)) = 4
    /\ Len(InWindow(last.id)) = 3

====
